---- MODULE Spec2Model ----
(***************************************************************************)
(* Model of mbtmap (src/src/main.rs): a filter that finds WASM addresses   *)
(* of the form wasm://...:...:<addr> in a traceback, resolves each through *)
(* a source map and appends " path:line:col" after the matched text.       *)
(*                                                                         *)
(* Text is a sequence of one-character strings.  Numbers parsed from the   *)
(* text are kept as little-endian sequences of 16-bit limbs so that usize  *)
(* (32 or 64 bits, depending on the build target) and u32 keep their width.*)
(* The output sink (stdout or stderr, selected by --stdout) is one         *)
(* variable, out: both branches of the selection write the same text.      *)
(***************************************************************************)
EXTENDS Integers, Sequences, FiniteSets, TLC

VARIABLES
    inputFile,      \* Args.input / stdin: [exists, text]
    sourcemapFile,  \* Args.sourcemap on disk: [state, tokens]
    line_buffer,    \* Args.line_buffer
    cwd,            \* Option<PathBuf>: [some, path]  (None iff --absolute-path)
    usizeLimbs,     \* width of usize in 16-bit limbs: 2 (32-bit) or 4 (64-bit)
    pos,            \* number of characters consumed from the input
    map,            \* the loaded SourceMap: [loaded, tokens]
    buf,            \* the text unit being filtered (input / buf)
    caps,           \* closure invocations of the last replace_all
    result,         \* result of the last replace_all
    out,            \* everything written to the selected sink
    log,            \* order of reads and writes, with their data
    err,            \* which ? propagated an error out of main
    pc              \* position in main

vars == <<inputFile, sourcemapFile, line_buffer, cwd, usizeLimbs, pos, map,
          buf, caps, result, out, log, err, pc>>

(***************************************************************************)
(* Bounds                                                                  *)
(***************************************************************************)
MaxFrags == 3
MaxEntries == 2

(***************************************************************************)
(* Text helpers                                                            *)
(***************************************************************************)
NL == "\n"

SetMax(S) == CHOOSE x \in S : \A y \in S : y <= x

SetMin(S) == CHOOSE x \in S : \A y \in S : x <= y

Slice(s, a, b) == IF a > b THEN <<>> ELSE SubSeq(s, a, b)

HasPrefixAt(s, i, p) ==
    /\ i >= 1
    /\ i + Len(p) - 1 <= Len(s)
    /\ \A k \in 1..Len(p) : s[i + k - 1] = p[k]

RECURSIVE Flatten(_)
Flatten(ss) == IF ss = <<>> THEN <<>> ELSE Head(ss) \o Flatten(Tail(ss))

HexLower == <<"0","1","2","3","4","5","6","7","8","9","a","b","c","d","e","f">>

HexUpper == <<"0","1","2","3","4","5","6","7","8","9","A","B","C","D","E","F">>

\* char::to_digit(radix): -1 stands for None
to_digit(c, radix) ==
    LET lo == {k \in 1..16 : HexLower[k] = c}
        up == {k \in 1..16 : HexUpper[k] = c}
        v  == IF lo # {} THEN SetMin(lo) - 1
              ELSE IF up # {} THEN SetMin(up) - 1 ELSE -1
    IN IF v >= 0 /\ v < radix THEN v ELSE -1

\* the regex class [[:xdigit:]]
IsXdigit(c) == to_digit(c, 16) >= 0

(***************************************************************************)
(* The pattern  wasm\://.*\:.*\:((?:0x)?[[:xdigit:]]+)                     *)
(* Leftmost-first matching; each .* is greedy and does not match \n.       *)
(***************************************************************************)
WasmPrefix == <<"w","a","s","m",":","/","/">>

NoMatch == [start |-> 0, end |-> 0, cstart |-> 0]

\* first position >= j holding a line feed, Len(s)+1 when there is none:
\* the furthest a .* starting at j can reach
DotStarLimit(s, j) ==
    LET nls == {k \in j..Len(s) : s[k] = NL}
    IN IF nls = {} THEN Len(s) + 1 ELSE SetMin(nls)

\* [[:xdigit:]]+ at q, greedy: last position of the run (q - 1 when empty)
XdigitRunEnd(s, q) ==
    LET stops == {k \in q..Len(s) : ~IsXdigit(s[k])}
    IN IF stops = {} THEN Len(s) ELSE SetMin(stops) - 1

\* ((?:0x)?[[:xdigit:]]+) at q: last position of the capture, 0 when no match
AddrEnd(s, q) ==
    IF HasPrefixAt(s, q, <<"0","x">>) /\ XdigitRunEnd(s, q + 2) >= q + 2
    THEN XdigitRunEnd(s, q + 2)
    ELSE IF XdigitRunEnd(s, q) >= q THEN XdigitRunEnd(s, q) ELSE 0

\* .*\:((?:0x)?[[:xdigit:]]+) at p: the greedy .* takes the last colon that
\* is followed by an address
Tail2(s, p) ==
    LET c2 == {k \in p..(DotStarLimit(s, p) - 1) :
                  s[k] = ":" /\ AddrEnd(s, k + 1) # 0}
    IN IF c2 = {} THEN NoMatch
       ELSE [start |-> p, end |-> AddrEnd(s, SetMax(c2) + 1),
             cstart |-> SetMax(c2) + 1]

\* .*\:.*\:((?:0x)?[[:xdigit:]]+) at p
Tail1(s, p) ==
    LET c1 == {k \in p..(DotStarLimit(s, p) - 1) :
                  s[k] = ":" /\ Tail2(s, k + 1) # NoMatch}
    IN IF c1 = {} THEN NoMatch ELSE Tail2(s, SetMax(c1) + 1)

\* the pattern with both .* made lazy (.*?): ends at the first address that
\* follows two colons
MatchAtLazy(s, i) ==
    LET from == i + Len(WasmPrefix)
        c2 == {k \in from..(DotStarLimit(s, from) - 1) :
                  /\ s[k] = ":"
                  /\ AddrEnd(s, k + 1) # 0
                  /\ \E j \in from..(k - 1) : s[j] = ":"}
    IN IF HasPrefixAt(s, i, WasmPrefix) /\ c2 # {}
       THEN [start |-> i, end |-> AddrEnd(s, SetMin(c2) + 1),
             cstart |-> SetMin(c2) + 1]
       ELSE NoMatch

\* the whole pattern anchored at i
MatchAt(s, i) ==
    IF HasPrefixAt(s, i, WasmPrefix) /\ Tail1(s, i + Len(WasmPrefix)) # NoMatch
    THEN [start |-> i, end |-> Tail1(s, i + Len(WasmPrefix)).end,
          cstart |-> Tail1(s, i + Len(WasmPrefix)).cstart]
    ELSE NoMatch

\* Regex::captures_iter: successive non-overlapping leftmost matches
RECURSIVE captures_iter(_, _)
captures_iter(s, from) ==
    LET starts == {i \in from..Len(s) : MatchAt(s, i) # NoMatch}
    IN IF starts = {} THEN <<>>
       ELSE LET m == MatchAt(s, SetMin(starts))
            IN <<m>> \o captures_iter(s, m.end + 1)

(***************************************************************************)
(* Address decoding: usize::from_str_radix / str::parse::<usize>           *)
(***************************************************************************)
LimbBase == 65536

\* v * radix + c on little-endian limbs; carry is what did not fit
RECURSIVE MulAdd(_, _, _)
MulAdd(v, radix, c) ==
    IF v = <<>> THEN [limbs |-> <<>>, carry |-> c]
    ELSE LET t == Head(v) * radix + c
             r == MulAdd(Tail(v), radix, t \div LimbBase)
         IN [limbs |-> <<t % LimbBase>> \o r.limbs, carry |-> r.carry]

ParseErr == [ok |-> FALSE, limbs |-> <<>>]

\* digits s[k..] accumulated onto acc; Err on a bad digit or on overflow
RECURSIVE ParseFrom(_, _, _, _)
ParseFrom(s, k, radix, acc) ==
    IF k > Len(s) THEN [ok |-> TRUE, limbs |-> acc]
    ELSE IF to_digit(s[k], radix) < 0 THEN ParseErr
    ELSE LET r == MulAdd(acc, radix, to_digit(s[k], radix))
         IN IF r.carry # 0 THEN ParseErr
            ELSE ParseFrom(s, k + 1, radix, r.limbs)

from_str_radix(s, radix, nLimbs) ==
    IF s = <<>> THEN ParseErr
    ELSE ParseFrom(s, 1, radix, [k \in 1..nLimbs |-> 0])

\* main.rs:66-70
DecodeAddr(addr, nLimbs) ==
    IF HasPrefixAt(addr, 1, <<"0","x">>)
    THEN from_str_radix(Slice(addr, 3, Len(addr)), 16, nLimbs)
    ELSE from_str_radix(addr, 10, nLimbs)

\* `addr as u32`: the low 32 bits
AsU32(limbs) == [lo |-> limbs[1], hi |-> limbs[2]]

(***************************************************************************)
(* SourceMap::lookup_token(line, col): the token with the greatest         *)
(* (dst_line, dst_col) that is <= (line, col)                              *)
(***************************************************************************)
ColLeq(c, a) ==
    \/ c \div LimbBase < a.hi
    \/ c \div LimbBase = a.hi /\ c % LimbBase <= a.lo

NoToken == [some |-> FALSE]

\* a lookup that falls back to the first token when none precedes
lookup_tokenOrFirst(tokens, line, a) ==
    LET below == {t \in tokens :
                     \/ t.dst_line < line
                     \/ t.dst_line = line /\ ColLeq(t.dst_col, a)}
        pick(S) == CHOOSE t \in S : \A u \in S :
                          \/ u.dst_line < t.dst_line
                          \/ u.dst_line = t.dst_line /\ u.dst_col <= t.dst_col
        first == CHOOSE t \in tokens : \A u \in tokens :
                          \/ t.dst_line < u.dst_line
                          \/ t.dst_line = u.dst_line /\ t.dst_col <= u.dst_col
    IN IF tokens = {} THEN NoToken
       ELSE IF below = {} THEN [some |-> TRUE, token |-> first]
       ELSE [some |-> TRUE, token |-> pick(below)]

lookup_token(tokens, line, a) ==
    LET below == {t \in tokens :
                     \/ t.dst_line < line
                     \/ t.dst_line = line /\ ColLeq(t.dst_col, a)}
    IN IF below = {} THEN NoToken
       ELSE [some |-> TRUE,
             token |-> CHOOSE t \in below : \A u \in below :
                          \/ u.dst_line < t.dst_line
                          \/ u.dst_line = t.dst_line /\ u.dst_col <= t.dst_col]

(***************************************************************************)
(* Path::strip_prefix: comparison by components                            *)
(***************************************************************************)
RootDir == <<"/">>

\* spans [a, b] of the maximal separator-free runs of s, left to right
RECURSIVE SpansFrom(_, _)
SpansFrom(s, from) ==
    LET starts == {i \in from..Len(s) : s[i] # "/"}
    IN IF starts = {} THEN <<>>
       ELSE LET a == SetMin(starts)
                seps == {k \in a..Len(s) : s[k] = "/"}
                b == IF seps = {} THEN Len(s) ELSE SetMin(seps) - 1
            IN <<[a |-> a, b |-> b]>> \o SpansFrom(s, b + 1)

\* Components skips "." except as the first component of a relative path
NormalSpans(s) ==
    SelectSeq(SpansFrom(s, 1),
              LAMBDA sp : ~(Slice(s, sp.a, sp.b) = <<".">> /\ sp.a # 1))

HasRoot(s) == Len(s) >= 1 /\ s[1] = "/"

Components(s) ==
    (IF HasRoot(s) THEN <<RootDir>> ELSE <<>>)
    \o [k \in 1..Len(NormalSpans(s)) |->
           Slice(s, NormalSpans(s)[k].a, NormalSpans(s)[k].b)]

IsPrefixSeq(p, q) == Len(p) <= Len(q) /\ SubSeq(q, 1, Len(p)) = p

StripErr == [ok |-> FALSE, path |-> <<>>]

\* stripping by characters (str::strip_prefix) instead of by components
strip_prefixByChars(path, base) ==
    IF IsPrefixSeq(base, path)
    THEN [ok |-> TRUE, path |-> Slice(path, Len(base) + 1, Len(path))]
    ELSE StripErr

strip_prefix(path, base) ==
    IF ~IsPrefixSeq(Components(base), Components(path)) THEN StripErr
    ELSE LET sp == NormalSpans(path)
             used == Len(NormalSpans(base))
         IN IF used >= Len(sp) THEN [ok |-> TRUE, path |-> <<>>]
            ELSE [ok |-> TRUE,
                  path |-> Slice(path, sp[used + 1].a, sp[Len(sp)].b)]

(***************************************************************************)
(* resolve (main.rs:65-90)                                                 *)
(***************************************************************************)
\* Display of an unsigned integer
RECURSIVE Dec(_)
Dec(n) == IF n < 10 THEN <<HexLower[n + 1]>>
          ELSE Dec(n \div 10) \o <<HexLower[(n % 10) + 1]>>

Unknown == <<"<","u","n","k","n","o","w","n",">">>

None == [some |-> FALSE, text |-> <<>>]

Some(t) == [some |-> TRUE, text |-> t]

\* main.rs:72-84
RenderPath(src, dir) ==
    IF ~src.some THEN Unknown
    ELSE IF ~dir.some THEN src.path
    ELSE IF strip_prefix(src.path, dir.path).ok
         THEN strip_prefix(src.path, dir.path).path
         ELSE src.path

\* the column left 0-based
FormatLocationZeroCol(path, token) ==
    path \o <<":">> \o Dec(token.src_line + 1) \o <<":">> \o Dec(token.src_col)

\* main.rs:85-89
FormatLocation(path, token) ==
    path \o <<":">> \o Dec(token.src_line + 1) \o <<":">> \o Dec(token.src_col + 1)

\* token.get_source()? : a token without a source path resolves to nothing
resolveSourceRequired(tokens, addr, dir, nLimbs) ==
    LET a == DecodeAddr(addr, nLimbs)
    IN IF ~a.ok THEN None
       ELSE LET t == lookup_token(tokens, 0, AsU32(a.limbs))
            IN IF ~t.some \/ ~t.token.src.some THEN None
               ELSE Some(FormatLocation(RenderPath(t.token.src, dir), t.token))

resolve(tokens, addr, dir, nLimbs) ==
    LET a == DecodeAddr(addr, nLimbs)
    IN IF ~a.ok THEN None
       ELSE LET t == lookup_token(tokens, 0, AsU32(a.limbs))
            IN IF ~t.some THEN None
               ELSE Some(FormatLocation(RenderPath(t.token.src, dir), t.token))

unwrap_or_default(o) == IF o.some THEN o.text ELSE <<>>

(***************************************************************************)
(* Regex::replace_all with the closure of main.rs:105-111 / 125-131        *)
(***************************************************************************)
\* the closure without &caps[0]: the token is replaced, not kept
ReplacementWithoutToken(s, m, tokens, dir, nLimbs) ==
    <<" ">>
    \o unwrap_or_default(resolve(tokens, Slice(s, m.cstart, m.end), dir, nLimbs))

Replacement(s, m, tokens, dir, nLimbs) ==
    Slice(s, m.start, m.end) \o <<" ">>
    \o unwrap_or_default(resolve(tokens, Slice(s, m.cstart, m.end), dir, nLimbs))

\* one closure invocation, for the match m of s
Invocation(s, m, tokens, dir, nLimbs) ==
    [whole |-> Slice(s, m.start, m.end),
     addr  |-> Slice(s, m.cstart, m.end),
     start |-> m.start,
     end   |-> m.end,
     rep   |-> Replacement(s, m, tokens, dir, nLimbs)]

\* one record per closure invocation; each match is bound once
Invocations(s, tokens, dir, nLimbs) ==
    CHOOSE invs \in {[k \in 1..Len(ms) |->
                        CHOOSE inv \in {Invocation(s, m, tokens, dir, nLimbs) :
                                           m \in {ms[k]}} : TRUE] :
                     ms \in {captures_iter(s, 1)}} : TRUE

\* new += haystack[last_match..m.start]; new += rep; last_match = m.end
RECURSIVE ReplaceFrom(_, _, _, _)
ReplaceFrom(s, invs, k, last_match) ==
    IF k > Len(invs) THEN Slice(s, last_match + 1, Len(s))
    ELSE Slice(s, last_match + 1, invs[k].start - 1) \o invs[k].rep
         \o ReplaceFrom(s, invs, k + 1, invs[k].end)

replace_all(s, tokens, dir, nLimbs) ==
    ReplaceFrom(s, Invocations(s, tokens, dir, nLimbs), 1, 0)

\* BufRead::read_line: up to and including the next line feed, or to the end
LineLen(text, p) ==
    LET nls == {k \in (p + 1)..Len(text) : text[k] = NL}
    IN IF nls = {} THEN Len(text) - p ELSE SetMin(nls) - p


(***************************************************************************)
(* Inputs                                                                  *)
(***************************************************************************)
\* pieces of traceback text: plain text, two whole address tokens, the two
\* halves of a token (which join into a token, or are split by a line feed)
FragText == <<"a","t"," ">>

FragToken == <<"w","a","s","m",":","/","/","w",":","n",":","0","x","2","6","4","8","d">>

FragLow == <<"w","a","s","m",":","/","/","w",":","n",":","0","x","1","0">>

FragHead == <<"w","a","s","m",":","/","/","w">>

FragTail == <<":","n",":","0","x","1","0">>

Frags == {FragText, FragToken, FragLow, FragHead, FragTail, <<NL>>}

StreamTexts ==
    {Flatten(fs) : fs \in UNION {[1..n -> Frags] : n \in 0..MaxFrags}}

\* "wasm://wasm/000c5502:wasm-function[1060]:" as in the comment of main.rs:100
TokenStem == <<"w","a","s","m",":","/","/","w","a","s","m","/","0","0","0","c","5","5","0","2",":","w","a","s","m","-","f","u","n","c","t","i","o","n","[","1","0","6","0","]",":">>

AddrTexts ==
    { <<"0","x","2","6","4","8","d">>,
      <<"1","5","0","1","5","7">>,
      <<"0","x","2","6","4","8","D">>,
      <<"2","6","4","8","d">>,
      <<"0","x","1","0">>,
      <<"0","x","f","f","f","f","f","f","f","f">>,
      <<"0","x","1","0","0","0","0","2","6","4","8","d">>,
      <<"0","x","1","0","0","0","0","0","0","1","0">>,
      <<"0","x","1","0","0","0","0","0","0","0","0","0","0","0","0","2","6","4","8","d">> }

ResolveTexts == {FragText \o TokenStem \o a \o <<NL>> : a \in AddrTexts}

NoSrc == [some |-> FALSE, path |-> <<>>]

Src(p) == [some |-> TRUE, path |-> p]

ProjDir == <<"/","p","r","o","j">>

Sources ==
    { NoSrc,
      Src(<<"/","p","r","o","j","/","s","r","c","/","l","i","b",".","r","s">>),
      Src(<<"/","p","r","o","j","x","/","l","i","b",".","r","s">>),
      Src(<<"s","r","c","/","l","i","b",".","r","s">>),
      Src(ProjDir) }

Entry(dl, dc, src, sl, sc) ==
    [dst_line |-> dl, dst_col |-> dc, src |-> src, src_line |-> sl, src_col |-> sc]

\* generated offsets 0x10 and 0x2648d on line 0, and one token on line 1
Entries ==
    {Entry(0, 16, src, 9, 0) : src \in Sources}
    \cup {Entry(0, 150157, src, 41, 4) : src \in Sources}
    \cup {Entry(1, 0, Src(ProjDir \o <<"/","m">>), 0, 0)}

Tables ==
    {tb \in SUBSET Entries :
        /\ Cardinality(tb) <= MaxEntries
        /\ \A t, u \in tb :
              t.dst_line = u.dst_line /\ t.dst_col = u.dst_col => t = u}

ScenarioTable == {Entry(0, 150157, Src(<<"/","p","r","o","j","/","s","r","c","/","l","i","b",".","r","s">>), 41, 4)}

MapFile(st, tb) == [state |-> st, tokens |-> tb]

BadMapFiles == {MapFile("missing", {}), MapFile("corrupt", {})}

Cwds == {[some |-> FALSE, path |-> <<>>], [some |-> TRUE, path |-> ProjDir]}

NoInput == [exists |-> FALSE, text |-> <<>>]

InputOf(t) == [exists |-> TRUE, text |-> t]

(***************************************************************************)
(* main (main.rs:92-140)                                                   *)
(***************************************************************************)
InitRun ==
    /\ line_buffer \in BOOLEAN
    /\ pos = 0
    /\ map = [loaded |-> FALSE, tokens |-> {}]
    /\ buf = <<>>
    /\ caps = <<>>
    /\ result = <<>>
    /\ out = <<>>
    /\ log = <<>>
    /\ err = "none"
    /\ pc = "open"

\* traceback texts of several units against the scenario table, relative
\* paths, 64-bit build
Init ==
    /\ inputFile \in {NoInput} \cup {InputOf(t) : t \in StreamTexts}
    /\ sourcemapFile \in BadMapFiles \cup {MapFile("ok", ScenarioTable)}
    /\ cwd = [some |-> TRUE, path |-> ProjDir]
    /\ usizeLimbs = 4
    /\ InitRun

\* one address token against every table, both path modes, both builds
InitResolve ==
    /\ inputFile \in {NoInput} \cup {InputOf(t) : t \in ResolveTexts}
    /\ sourcemapFile \in BadMapFiles \cup {MapFile("ok", tb) : tb \in Tables}
    /\ cwd \in Cwds
    /\ usizeLimbs \in {2, 4}
    /\ InitRun

\* main.rs:94  Input::open(args.input)?
Open ==
    /\ pc = "open"
    /\ IF inputFile.exists
       THEN /\ pc' = IF line_buffer THEN "read_source_map" ELSE "read_to_string"
            /\ err' = err
       ELSE /\ pc' = "fatal"
            /\ err' = "input"
    /\ UNCHANGED <<inputFile, sourcemapFile, line_buffer, cwd, usizeLimbs, pos,
                   map, buf, caps, result, out, log>>

\* main.rs:103  input.read_to_string()?
ReadToString ==
    /\ pc = "read_to_string"
    /\ buf' = Slice(inputFile.text, pos + 1, Len(inputFile.text))
    /\ pos' = Len(inputFile.text)
    /\ log' = Append(log, [op |-> "read", data |-> buf'])
    /\ pc' = "read_source_map"
    /\ UNCHANGED <<inputFile, sourcemapFile, line_buffer, cwd, usizeLimbs, map,
                   caps, result, out, err>>

\* main.rs:104 and 118  read_source_map(&args.sourcemap)?
ReadSourceMap ==
    /\ pc = "read_source_map"
    /\ IF sourcemapFile.state = "ok"
       THEN /\ map' = [loaded |-> TRUE, tokens |-> sourcemapFile.tokens]
            /\ pc' = IF line_buffer THEN "read_line" ELSE "replace_all"
            /\ err' = err
       ELSE /\ map' = map
            /\ pc' = "fatal"
            /\ err' = "sourcemap"
    /\ UNCHANGED <<inputFile, sourcemapFile, line_buffer, cwd, usizeLimbs, pos,
                   buf, caps, result, out, log>>

\* a line read that drops the line terminator (as BufRead::lines does)
ReadLineTrimmed ==
    /\ pc = "read_line"
    /\ LET n == LineLen(inputFile.text, pos)
           t == Slice(inputFile.text, pos + 1, pos + n)
       IN /\ buf' = IF t # <<>> /\ t[Len(t)] = NL THEN Slice(t, 1, Len(t) - 1) ELSE t
          /\ pos' = pos + n
          /\ pc' = IF n = 0 THEN "done" ELSE "replace_all"
    /\ log' = Append(log, [op |-> "read", data |-> buf'])
    /\ UNCHANGED <<inputFile, sourcemapFile, line_buffer, cwd, usizeLimbs, map,
                   caps, result, out, err>>

\* a loop that filters and prints the empty read before it ends
ReadLineLateBreak ==
    /\ pc = "read_line"
    /\ LET n == LineLen(inputFile.text, pos)
       IN /\ buf' = Slice(inputFile.text, pos + 1, pos + n)
          /\ pos' = pos + n
          /\ pc' = IF n = 0 /\ log # <<>> /\ log[Len(log)].data = <<>>
                   THEN "done" ELSE "replace_all"
    /\ log' = Append(log, [op |-> "read", data |-> buf'])
    /\ UNCHANGED <<inputFile, sourcemapFile, line_buffer, cwd, usizeLimbs, map,
                   caps, result, out, err>>

\* main.rs:121-124  buf.clear(); if input.read_line(&mut buf)? == 0 { break }
ReadLine ==
    /\ pc = "read_line"
    /\ LET n == LineLen(inputFile.text, pos)
       IN /\ buf' = Slice(inputFile.text, pos + 1, pos + n)
          /\ pos' = pos + n
          /\ pc' = IF n = 0 THEN "done" ELSE "replace_all"
    /\ log' = Append(log, [op |-> "read", data |-> buf'])
    /\ UNCHANGED <<inputFile, sourcemapFile, line_buffer, cwd, usizeLimbs, map,
                   caps, result, out, err>>

\* main.rs:105-111 and 125-131  re.replace_all(..)
ReplaceAll ==
    /\ pc = "replace_all"
    /\ caps' = Invocations(buf, map.tokens, cwd, usizeLimbs)
    /\ result' = replace_all(buf, map.tokens, cwd, usizeLimbs)
    /\ pc' = "print"
    /\ UNCHANGED <<inputFile, sourcemapFile, line_buffer, cwd, usizeLimbs, pos,
                   map, buf, out, log, err>>

\* main.rs:112-116 and 132-136  print!/eprint!("{result}")
PrintResult ==
    /\ pc = "print"
    /\ out' = out \o result
    /\ log' = Append(log, [op |-> "write", data |-> result])
    /\ pc' = IF line_buffer THEN "read_line" ELSE "done"
    /\ UNCHANGED <<inputFile, sourcemapFile, line_buffer, cwd, usizeLimbs, pos,
                   map, buf, caps, result, err>>

Next ==
    \/ Open
    \/ ReadToString
    \/ ReadSourceMap
    \/ ReadLine
    \/ ReplaceAll
    \/ PrintResult

Spec == Init /\ [][Next]_vars

SpecResolve == InitResolve /\ [][Next]_vars


(***************************************************************************)
(* Vocabulary of the properties                                            *)
(***************************************************************************)
\* the text inserted after the matched token by closure invocation c
Inserted(c) == Slice(c.rep, Len(c.whole) + 1, Len(c.rep))

\* the annotation: what follows the inserted space
Annotation(c) == Slice(c.rep, Len(c.whole) + 2, Len(c.rep))

\* total length of the suffixes inserted by invocations 1..k
RECURSIVE InsertedBefore(_, _)
InsertedBefore(invs, k) ==
    IF k = 0 THEN 0 ELSE InsertedBefore(invs, k - 1) + Len(Inserted(invs[k]))

\* where in the output the suffix of invocation k begins (one before it)
SuffixAt(invs, k) == invs[k].end + InsertedBefore(invs, k - 1)

\* res with the suffixes inserted by invocations 1..k deleted, last first
RECURSIVE DeleteInserted(_, _, _)
DeleteInserted(res, invs, k) ==
    IF k = 0 THEN res
    ELSE DeleteInserted(
             Slice(res, 1, SuffixAt(invs, k))
             \o Slice(res, SuffixAt(invs, k) + Len(Inserted(invs[k])) + 1, Len(res)),
             invs, k - 1)

\* s contains a substring of the shape wasm://<anything>:<anything>:<addr>
\* within one line
HasShape(s) ==
    \E i \in 1..Len(s) : \E p1 \in 1..Len(s) : \E p2 \in 1..Len(s) :
        /\ HasPrefixAt(s, i, WasmPrefix)
        /\ i + Len(WasmPrefix) <= p1 /\ p1 < p2 /\ p2 < Len(s)
        /\ s[p1] = ":" /\ s[p2] = ":"
        /\ IsXdigit(s[p2 + 1])
        /\ \A n \in i..p2 : s[n] # NL

\* the address tokens of s taken one by one, left to right: each runs from
\* its wasm:// to the first address that follows two colons
RECURSIVE Tokens(_, _)
Tokens(s, from) ==
    LET starts == {i \in from..Len(s) : MatchAtLazy(s, i) # NoMatch}
    IN IF starts = {} THEN <<>>
       ELSE <<MatchAtLazy(s, SetMin(starts))>>
            \o Tokens(s, MatchAtLazy(s, SetMin(starts)).end + 1)

Writes == SelectSeq(log, LAMBDA e : e.op = "write")

Reads == SelectSeq(log, LAMBDA e : e.op = "read")

\* the payload as a number, independent of the machine arithmetic: the
\* values of its digits without leading zeros, compared by length and then
\* digit by digit
IsHex(addr) == HasPrefixAt(addr, 1, <<"0","x">>)

AddrRadix(addr) == IF IsHex(addr) THEN 16 ELSE 10

AddrDigits(addr) == IF IsHex(addr) THEN Slice(addr, 3, Len(addr)) ELSE addr

IsNumber(addr) ==
    /\ AddrDigits(addr) # <<>>
    /\ \A k \in 1..Len(AddrDigits(addr)) :
          to_digit(AddrDigits(addr)[k], AddrRadix(addr)) >= 0

RECURSIVE StripZeros(_)
StripZeros(ds) ==
    IF ds # <<>> /\ Head(ds) = 0 THEN StripZeros(Tail(ds)) ELSE ds

Numeral(addr) ==
    StripZeros([k \in 1..Len(AddrDigits(addr)) |->
                   to_digit(AddrDigits(addr)[k], AddrRadix(addr))])

RECURSIVE NumeralOf(_, _)
NumeralOf(n, radix) ==
    IF n = 0 THEN <<>> ELSE NumeralOf(n \div radix, radix) \o <<n % radix>>

RECURSIVE LexLeq(_, _)
LexLeq(a, b) ==
    \/ a = <<>>
    \/ /\ b # <<>>
       /\ \/ Head(a) < Head(b)
          \/ Head(a) = Head(b) /\ LexLeq(Tail(a), Tail(b))

NumLeq(a, b) == Len(a) < Len(b) \/ (Len(a) = Len(b) /\ LexLeq(a, b))

\* 2^32 - 1 in decimal digits
U32MaxDecimal == <<4, 2, 9, 4, 9, 6, 7, 2, 9, 5>>

\* the value fits the 32-bit offset that lookup_token takes
InU32(addr) ==
    IF IsHex(addr) THEN Len(Numeral(addr)) <= 8
    ELSE NumLeq(Numeral(addr), U32MaxDecimal)

\* entries of generated line 0 at or before the address
Covering(tokens, addr) ==
    {t \in tokens :
        /\ t.dst_line = 0
        /\ NumLeq(NumeralOf(t.dst_col, AddrRadix(addr)), Numeral(addr))}

\* entries of generated line 0 exactly at the address
ExactlyAt(tokens, addr) ==
    {t \in Covering(tokens, addr) :
        NumLeq(Numeral(addr), NumeralOf(t.dst_col, AddrRadix(addr)))}

NearestPreceding(tokens, addr) ==
    CHOOSE t \in Covering(tokens, addr) :
        \A u \in Covering(tokens, addr) : u.dst_col <= t.dst_col

LineCol(t) == <<":">> \o Dec(t.src_line + 1) \o <<":">> \o Dec(t.src_col + 1)

IsSuffixSeq(p, q) ==
    Len(p) <= Len(q) /\ Slice(q, Len(q) - Len(p) + 1, Len(q)) = p

\* the token the code looked up for invocation c, if any
Looked(c) ==
    IF DecodeAddr(c.addr, usizeLimbs).ok
    THEN lookup_token(map.tokens, 0, AsU32(DecodeAddr(c.addr, usizeLimbs).limbs))
    ELSE NoToken

\* p lies strictly below directory b, by whole path names
StrictlyUnder(p, b) ==
    /\ Len(p) > Len(b) + 1
    /\ SubSeq(p, 1, Len(b)) = b
    /\ p[Len(b) + 1] = "/"


(***************************************************************************)
(* Properties of the stream filter (specification Spec)                    *)
(***************************************************************************)

\* C1: every emitted unit is its input unit with, after each matched token,
\* an inserted suffix of one space and the (possibly empty) annotation;
\* deleting the inserted suffixes gives back the input unit, and a unit (and
\* a whole input, in both modes) with no wasm://..:..:<addr> shape is
\* emitted unchanged.
C1_OutputIsInputPlusSuffixes ==
    /\ pc = "print" =>
          /\ \A k \in 1..Len(caps) :
                /\ IsPrefixSeq(caps[k].whole \o <<" ">>, caps[k].rep)
                /\ Slice(result, SuffixAt(caps, k) + 1,
                         SuffixAt(caps, k) + Len(Inserted(caps[k])))
                      = Inserted(caps[k])
                /\ Slice(result, SuffixAt(caps, k) - Len(caps[k].whole) + 1,
                         SuffixAt(caps, k))
                      = caps[k].whole
          /\ DeleteInserted(result, caps, Len(caps)) = buf
          /\ ~HasShape(buf) => result = buf
    /\ pc = "done" /\ ~HasShape(inputFile.text) => out = inputFile.text

C1_Witness ==
    /\ pc = "print"
    /\ Len(caps) >= 2
    /\ \E k \in 1..Len(caps) : Annotation(caps[k]) # <<>>
    /\ \E k \in 1..Len(caps) : Annotation(caps[k]) = <<>>

\* C2: when line-buffered mode has finished, everything it wrote, taken
\* together, is the single result whole-buffer mode writes for the same
\* input and table.  No match of the pattern contains a line feed, so the
\* condition "no match straddles a line boundary" excludes no input.
C2_LineModeEqualsWholeMode ==
    pc = "done" /\ line_buffer =>
        /\ \A k \in 1..Len(captures_iter(inputFile.text, 1)) :
              \A n \in captures_iter(inputFile.text, 1)[k].start
                         ..captures_iter(inputFile.text, 1)[k].end :
                  inputFile.text[n] # NL
        /\ out = replace_all(inputFile.text, map.tokens, cwd, usizeLimbs)

C2_Witness ==
    /\ pc = "done"
    /\ line_buffer
    /\ Len(Writes) >= 2
    /\ Len(out) > Len(inputFile.text) + 1

\* C3 as stated: when a unit holds several address tokens, on one line or
\* on several, every one of them is located as its own match and is followed by the annotation
\* of its own address.
C3_EveryTokenIsItsOwnMatch ==
    pc = "print" /\ Len(Tokens(buf, 1)) >= 2 =>
        /\ Len(caps) = Len(Tokens(buf, 1))
        /\ \A k \in 1..Len(caps) :
              /\ caps[k].start = Tokens(buf, 1)[k].start
              /\ caps[k].end = Tokens(buf, 1)[k].end
              /\ caps[k].addr
                    = Slice(buf, Tokens(buf, 1)[k].cstart, Tokens(buf, 1)[k].end)

\* C3 amended: the matches of a unit lie on different lines, left to right,
\* each running from its wasm:// to the last address of its line; every
\* token of the unit lies inside one of them, and each match is followed by
\* the annotation of its own captured address.
C3_MatchesPerLine ==
    pc = "print" =>
        /\ \A k \in 1..Len(caps) :
              /\ IsSuffixSeq(caps[k].addr, caps[k].whole)
              /\ caps[k].rep = caps[k].whole \o <<" ">>
                    \o unwrap_or_default(resolve(map.tokens, caps[k].addr, cwd, usizeLimbs))
              /\ \A i \in caps[k].start..caps[k].end : buf[i] # NL
              /\ \A p \in (caps[k].end + 1)..(DotStarLimit(buf, caps[k].end) - 2) :
                    ~(buf[p] = ":" /\ IsXdigit(buf[p + 1]))
        /\ \A k \in 1..(Len(caps) - 1) :
              \E n \in (caps[k].end + 1)..(caps[k + 1].start - 1) : buf[n] = NL
        /\ \A i \in 1..Len(buf) :
              MatchAt(buf, i) # NoMatch =>
                  \E k \in 1..Len(caps) : caps[k].start <= i /\ i <= caps[k].end

C3_Witness ==
    /\ pc = "print"
    /\ Len(caps) >= 2
    /\ caps[1].addr # caps[2].addr
    /\ Annotation(caps[2]) # <<>>

\* C9: in line-buffered mode reads and writes alternate: every write is the
\* rewritten form of the line read just before it, every non-empty read is
\* followed by its write before the next read, the lines read are the
\* input's lines in order, and the run is over exactly when a read has
\* yielded zero bytes, after which nothing is read or written.
C9_ReadWriteAlternate ==
    line_buffer =>
        /\ \A i \in 1..Len(log) :
              /\ log[i].op = "write" =>
                    /\ i > 1
                    /\ log[i - 1].op = "read"
                    /\ log[i - 1].data # <<>>
                    /\ log[i].data
                          = replace_all(log[i - 1].data, map.tokens, cwd, usizeLimbs)
              /\ log[i].op = "read" /\ log[i].data # <<>> /\ i < Len(log) =>
                    log[i + 1].op = "write"
              /\ log[i].op = "read" /\ log[i].data # <<>> =>
                    \/ log[i].data[Len(log[i].data)] = NL
                    \/ i >= Len(log) - 2
              /\ log[i].op = "read" /\ log[i].data = <<>> => i = Len(log)
        /\ Flatten([k \in 1..Len(Reads) |-> Reads[k].data])
              = Slice(inputFile.text, 1, pos)
        /\ pc = "done" <=>
              /\ log # <<>>
              /\ log[Len(log)] = [op |-> "read", data |-> <<>>]
        /\ pc = "done" => pos = Len(inputFile.text)

C9_Witness ==
    /\ line_buffer
    /\ pc = "done"
    /\ Len(Writes) >= 2
    /\ Len(Reads) = 3

\* C10 as stated: when loading the mapping table fails, in either mode, no
\* input has been read, no unit scanned and nothing written.
C10_LoadFailureBeforeAnyInput ==
    err = "sourcemap" =>
        /\ pos = 0
        /\ log = <<>>
        /\ buf = <<>>
        /\ caps = <<>>
        /\ out = <<>>


(***************************************************************************)
(* Properties of resolve (specification SpecResolve)                       *)
(***************************************************************************)

\* C4: a matched token whose payload is a number within the 32-bit offset
\* range and has a covering entry (an entry of generated line 0 at or before
\* it) is replaced by the token, one space, a path, and :line:col with the
\* stored line and column of the nearest preceding entry each plus one.
C4_CoveredAddressAnnotated ==
    pc = "print" =>
        \A k \in 1..Len(caps) :
            (/\ IsNumber(caps[k].addr)
             /\ InU32(caps[k].addr)
             /\ Covering(map.tokens, caps[k].addr) # {}) =>
                LET t == NearestPreceding(map.tokens, caps[k].addr)
                IN /\ IsPrefixSeq(caps[k].whole \o <<" ">>, caps[k].rep)
                   /\ IsSuffixSeq(LineCol(t), Annotation(caps[k]))
                   /\ LET path == Slice(Annotation(caps[k]), 1,
                                        Len(Annotation(caps[k])) - Len(LineCol(t)))
                      IN IF t.src.some THEN IsSuffixSeq(path, t.src.path)
                         ELSE path = Unknown

C4_Witness ==
    /\ pc = "print"
    /\ Len(caps) = 1
    /\ ~IsHex(caps[1].addr)
    /\ IsNumber(caps[1].addr)
    /\ Cardinality(Covering(map.tokens, caps[1].addr)) = 2
    /\ Annotation(caps[1]) # <<>>

\* C5 as stated: a matched token whose address (a number within the offset
\* range) is not itself an entry of the table gets a trailing space and no
\* annotation.
C5_NoEntryNoAnnotation ==
    pc = "print" =>
        \A k \in 1..Len(caps) :
            (/\ IsNumber(caps[k].addr)
             /\ InU32(caps[k].addr)
             /\ ExactlyAt(map.tokens, caps[k].addr) = {}) =>
                caps[k].rep = caps[k].whole \o <<" ">>

\* C5 amended: a matched token whose address has no covering entry (no
\* entry of generated line 0 at or before it) gets a trailing space and no
\* annotation; an address above the table's entries is covered by the
\* nearest preceding one: 0xffffffff against the table whose only entry maps
\* 0x2648d gets that entry's annotation.
C5_NoCoveringEntryNoAnnotation ==
    pc = "print" =>
        \A k \in 1..Len(caps) :
            /\ (IsNumber(caps[k].addr) /\ Covering(map.tokens, caps[k].addr) = {}) =>
                  caps[k].rep = caps[k].whole \o <<" ">>
            /\ (/\ Numeral(caps[k].addr) = <<15, 15, 15, 15, 15, 15, 15, 15>>
                /\ map.tokens = ScenarioTable) =>
                  /\ Annotation(caps[k]) # <<>>
                  /\ IsSuffixSeq(<<":","4","2",":","5">>, caps[k].rep)

C5_Witness ==
    /\ pc = "print"
    /\ Len(caps) = 1
    /\ IsNumber(caps[1].addr)
    /\ Covering(map.tokens, caps[1].addr) = {}
    /\ \E t \in map.tokens : t.dst_line = 0

\* C6 as stated: a payload whose value does not fit the 32-bit offset is a
\* decode failure: nothing is appended after the space.
C6_OutOfRangeIsDecodeFailure ==
    pc = "print" =>
        \A k \in 1..Len(caps) :
            (IsNumber(caps[k].addr) /\ ~InU32(caps[k].addr)) =>
                caps[k].rep = caps[k].whole \o <<" ">>

\* C7: the annotation is "<unknown>:line+1:col+1" exactly when the lookup
\* found a token without a source path, and empty exactly when the address
\* did not decode or the lookup found no token.
C7_UnknownVersusEmpty ==
    pc = "print" =>
        \A k \in 1..Len(caps) :
            /\ IsPrefixSeq(caps[k].whole \o <<" ">>, caps[k].rep)
            /\ ~Looked(caps[k]).some <=> Annotation(caps[k]) = <<>>
            /\ (Looked(caps[k]).some /\ ~Looked(caps[k]).token.src.some) <=>
                  IsPrefixSeq(Unknown, Annotation(caps[k]))
            /\ (Looked(caps[k]).some /\ ~Looked(caps[k]).token.src.some) =>
                  Annotation(caps[k]) = Unknown \o LineCol(Looked(caps[k]).token)

C7_Witness ==
    /\ pc = "print"
    /\ Len(caps) = 1
    /\ Looked(caps[1]).some
    /\ ~Looked(caps[1]).token.src.some
    /\ Cardinality(map.tokens) = 2

====
